---- MODULE Spec2Model ----
(***************************************************************************)
(* Timed sell order (src/contract.rs): a seller delegates SPL tokens to a  *)
(* program-derived authority (create_sell_order), anyone may buy part of   *)
(* the delegated amount before the deadline (buy), and the seller may      *)
(* retire the order (cancel).                                              *)
(*                                                                         *)
(* One action per instruction.  An instruction is the Anchor account       *)
(* validation of its Accounts struct followed by its handler; the ledger   *)
(* applies an instruction whole or not at all.  The token program's        *)
(* approve / transfer / revoke and the ledger's rules on lamports are      *)
(* modelled as far as the handlers depend on them.                         *)
(*                                                                         *)
(* The handlers `buy` and `cancel` name `ctx.accounts.seller_token_account`*)
(* (lines 88, 108); their Accounts structs call that account               *)
(* `token_account` (lines 174, 207).  The model reads both as the one      *)
(* seller token account of the struct.                                     *)
(***************************************************************************)
EXTENDS Integers, FiniteSets, Sequences, TLC

---------------------------------------------------------------------------
(* Bounds of the model. *)

\* u64::MAX, scaled down: the largest value of amount, price and lamports.
U64Max == 15
\* largest amount passed to create_sell_order and buy
MaxAmount == 2
\* the ordinary unit price (the other prices tried are 0 and U64Max)
UnitPrice == 2
\* the clock runs 0..MaxTime; deadlines are drawn from the same range
MaxTime == 2

\* rent-exempt deposit of the order account (space = 8 + SellOrder::SIZE), scaled
Rent == 1

---------------------------------------------------------------------------
(* The accounts of the model. *)

SystemProgram == "system_program"
ProgramId == "timed_sell_order"

\* alice and bob are ordinary wallets; carol is a keypair account assigned to
\* this program (a Signer need not be owned by the system program).
Wallets == {"alice", "bob", "carol"}
WalletOwner == [w \in Wallets |-> IF w = "carol" THEN ProgramId ELSE SystemProgram]

\* SPL token accounts (one mint) and their owners
TokAccts == {"ta", "tb"}
TokOwner == [t \in TokAccts |-> IF t = "ta" THEN "alice" ELSE "carol"]

\* callers of create_sell_order and the token accounts they offer
Sellers == {"alice", "bob"}
Sources == {"ta"}
Pairs == Sellers \X Sources
\* the pairs whose approve can succeed: the canonical bumps of the others are never read
OwnerPairs == {p \in Pairs : TokOwner[p[2]] = p[1]}

Bumps == {254, 255}
Amounts == 0..MaxAmount
Prices == {0, UnitPrice, U64Max}
Deadlines == 0..MaxTime

InitLamports == [w \in Wallets |-> CASE w = "alice" -> 1 [] w = "bob" -> 2 [] OTHER -> 6]
InitTokens == [t \in TokAccts |-> IF t = "ta" THEN 2 ELSE 0]

NoDelegate == <<>>

VARIABLES
    now,               \* Clock::get()?.unix_timestamp
    lamports,          \* lamports of every wallet
    sell_order,        \* the SellOrder accounts that exist, by (seller, token account)
    order_lamports,    \* lamports held by each SellOrder account (its rent deposit)
    token_amount,      \* TokenAccount.amount
    delegate,          \* TokenAccount.delegate
    delegated_amount,  \* TokenAccount.delegated_amount
    order_bump,        \* canonical bump of the seeds ["sell_order", seller, token account]
    authority_bump,    \* canonical bump of the seeds [seller, token account]
    created,           \* history: the amount passed to the create that made each order
    purchased,         \* history: sum of the amounts of the successful buys of each order
    last               \* the instruction of the last step, its signer and its result

ledger == <<lamports, sell_order, order_lamports, token_amount, delegate, delegated_amount>>
history == <<created, purchased>>
vars == <<now, lamports, sell_order, order_lamports, token_amount, delegate,
          delegated_amount, order_bump, authority_bump, created, purchased, last>>

---------------------------------------------------------------------------
(* Helpers *)

\* the mutable state an instruction works on
Cur == [lamports |-> lamports, sell_order |-> sell_order, order_lamports |-> order_lamports,
        token_amount |-> token_amount, delegate |-> delegate,
        delegated_amount |-> delegated_amount, created |-> created, purchased |-> purchased]

Done(st) == [err |-> "Ok", st |-> st]
Fail(e, st) == [err |-> e, st |-> st]

RECURSIVE SumOver(_, _)
SumOver(f, S) == IF S = {} THEN 0 ELSE LET x == CHOOSE y \in S : TRUE IN f[x] + SumOver(f, S \ {x})

TotalLamports(st) == SumOver(st.lamports, Wallets) + SumOver(st.order_lamports, DOMAIN st.order_lamports)

\* Pubkey::create_program_address(seeds ++ [bump]): distinct inputs give distinct addresses
Derive(ns, seller, tok, bump) == <<ns, seller, tok, bump>>

\* find_program_address: the canonical bump of a seed list.  It is a fixed but
\* unknown function of the seeds, chosen in Init for the pairs that can hold an
\* order; for the other pairs every create aborts at approve and the value read
\* on the way is discarded with the rest of the instruction.
CanonicalBump(ns, p) ==
    IF p \notin OwnerPairs THEN 255
    ELSE IF ns = "sell_order" THEN order_bump[p] ELSE authority_bump[p]

\* address of the SellOrder account of the pair p (seeds of lines 142, 167, 201)
SellOrderKey(p) == Derive("sell_order", p[1], p[2], CanonicalBump("sell_order", p))
\* address of the order authority of the pair p (seeds of line 132)
OrderAuthorityKey(p) == Derive("", p[1], p[2], CanonicalBump("", p))

Put(f, k, v) == [x \in DOMAIN f \cup {k} |-> IF x = k THEN v ELSE f[x]]
Drop(f, k) == [x \in DOMAIN f \ {k} |-> f[x]]

---------------------------------------------------------------------------
(* The SPL token program, as far as the three CPIs use it. *)

\* token::approve (lines 45-55): only the owner of the token account may
\* approve; the delegate and the delegated amount are replaced.  The balance
\* of the account is not looked at.
Approve(st, tok, dlg, authority, amount) ==
    IF TokOwner[tok] # authority THEN Fail("OwnerMismatch", st)
    ELSE Done([st EXCEPT !.delegate[tok] = dlg, !.delegated_amount[tok] = amount])

\* token::transfer signed by the order authority (lines 84-95).  The authority
\* is a program-derived address, never the owner of the token account, so it
\* can only move tokens as the account's delegate.  A transfer of an account
\* to itself is checked but moves nothing and uses up no allowance.
Transfer(st, src, dst, authority, amount) ==
    IF st.token_amount[src] < amount THEN Fail("InsufficientFunds", st)
    ELSE IF st.delegate[src] # authority THEN Fail("OwnerMismatch", st)
    ELSE IF st.delegated_amount[src] < amount THEN Fail("InsufficientFunds", st)
    ELSE IF src = dst \/ amount = 0 THEN Done(st)
    ELSE IF st.token_amount[dst] + amount > U64Max THEN Fail("Overflow", st)
    ELSE LET left == st.delegated_amount[src] - amount IN
         Done([st EXCEPT !.delegated_amount[src] = left,
                         !.delegate[src] = IF left = 0 THEN NoDelegate ELSE @,
                         !.token_amount[src] = @ - amount,
                         !.token_amount[dst] = @ + amount])

\* token::revoke (lines 104-112): only the owner may revoke; the delegate and
\* the delegated amount are cleared.
Revoke(st, src, authority) ==
    IF TokOwner[src] # authority THEN Fail("OwnerMismatch", st)
    ELSE Done([st EXCEPT !.delegate[src] = NoDelegate, !.delegated_amount[src] = 0])

---------------------------------------------------------------------------
(* create_sell_order *)

\* (variant) `init_if_needed` for `init`: an account that is there is taken as it is
CreateSellOrderIfNeeded(st, seller, tok) ==
    LET p == <<seller, tok>> IN
    IF p \in DOMAIN st.order_lamports THEN Done(st)
    ELSE IF st.lamports[seller] < Rent THEN Fail("InsufficientLamports", st)
    ELSE Done([st EXCEPT !.lamports[seller] = @ - Rent,
                         !.order_lamports = Put(@, p, Rent)])

\* The Accounts struct CreateSellOrder: `init` creates the SellOrder account
\* at its canonical address and has the seller pay its rent deposit.  It fails
\* when the account is already there or the seller cannot pay.
CreateSellOrder(st, seller, tok) ==
    LET p == <<seller, tok>> IN
    IF p \in DOMAIN st.order_lamports THEN Fail("AccountAlreadyInUse", st)
    ELSE IF st.lamports[seller] < Rent THEN Fail("InsufficientLamports", st)
    ELSE Done([st EXCEPT !.lamports[seller] = @ - Rent,
                         !.order_lamports = Put(@, p, Rent)])

\* (variant) the deadline check of line 32 with >= for >
CreateChecksDeadlineNow(t, amount, price_per_token, deadline) ==
    IF ~(amount > 0) THEN "InvalidAmount"
    ELSE IF ~(price_per_token > 0) THEN "InvalidPrice"
    ELSE IF ~(deadline >= t) THEN "DeadlineInPast"
    ELSE "Ok"

\* the three require! of create_sell_order, in order
CreateChecks(t, amount, price_per_token, deadline) ==
    IF ~(amount > 0) THEN "InvalidAmount"
    ELSE IF ~(price_per_token > 0) THEN "InvalidPrice"
    ELSE IF ~(deadline > t) THEN "DeadlineInPast"
    ELSE "Ok"

\* (variant) lines 39-40 with amount and price exchanged
NewOrderSwapped(seller, tok, amount, price_per_token, deadline) ==
    [seller |-> seller,
     token_mint |-> "mint",
     token_account |-> tok,
     amount_remaining |-> price_per_token,
     price_per_token |-> amount,
     deadline |-> deadline,
     bump |-> CanonicalBump("", <<seller, tok>>)]

\* the SellOrder that create_sell_order persists
NewOrder(seller, tok, amount, price_per_token, deadline) ==
    [seller |-> seller,
     token_mint |-> "mint",
     token_account |-> tok,
     amount_remaining |-> amount,
     price_per_token |-> price_per_token,
     deadline |-> deadline,
     bump |-> CanonicalBump("", <<seller, tok>>)]

\* the handler create_sell_order
create_sell_order(st, t, seller, tok, amount, price_per_token, deadline) ==
    LET p == <<seller, tok>>
        e == CreateChecks(t, amount, price_per_token, deadline)
        st1 == [st EXCEPT
                  !.sell_order = Put(@, p, NewOrder(seller, tok, amount, price_per_token, deadline)),
                  !.created = Put(@, p, amount),
                  !.purchased = Put(@, p, 0)]
    IN  IF e # "Ok" THEN Fail(e, st)
        ELSE Approve(st1, tok, OrderAuthorityKey(p), seller, amount)

\* the whole instruction: account validation, then the handler
CreateIx(st, t, seller, tok, amount, price_per_token, deadline) ==
    LET a == CreateSellOrder(st, seller, tok) IN
    IF a.err # "Ok" THEN a
    ELSE create_sell_order(a.st, t, seller, tok, amount, price_per_token, deadline)

---------------------------------------------------------------------------
(* buy *)

\* The Accounts struct Buy.  `a` holds the accounts the caller passes:
\* buyer, seller, sell_order (named by the pair it was created for),
\* token_account, buyer_token_account and order_authority.
Buy(st, a) ==
    IF WalletOwner[a.seller] # SystemProgram THEN "AccountNotSystemOwned"
    ELSE IF a.sell_order \notin DOMAIN st.sell_order THEN "AccountNotInitialized"
    ELSE LET o == st.sell_order[a.sell_order] IN
         IF o.seller # a.seller \/ o.token_account # a.token_account THEN "ConstraintHasOne"
         ELSE IF SellOrderKey(a.sell_order)
                   # Derive("sell_order", a.seller, a.token_account, o.bump) THEN "ConstraintSeeds"
         ELSE IF a.order_authority
                   # Derive("", a.seller, a.token_account, o.bump) THEN "ConstraintSeeds"
         ELSE "Ok"

\* (variant) line 67 without `amount <= order.amount_remaining`
BuyChecksNoUpperBound(t, o, amount) ==
    IF ~(t <= o.deadline) THEN "OrderExpired"
    ELSE IF ~(amount > 0) THEN "InvalidAmount"
    ELSE "Ok"

\* (variant) line 67 without `amount > 0`
BuyChecksAllowZero(t, o, amount) ==
    IF ~(t <= o.deadline) THEN "OrderExpired"
    ELSE IF ~(amount <= o.amount_remaining) THEN "InvalidAmount"
    ELSE "Ok"

\* the two require! of buy, in order
BuyChecks(t, o, amount) ==
    IF ~(t <= o.deadline) THEN "OrderExpired"
    ELSE IF ~(amount > 0 /\ amount <= o.amount_remaining) THEN "InvalidAmount"
    ELSE "Ok"

\* (variant) wrapping_mul for checked_mul
WrappingMul(x, y) == (x * y) % (U64Max + 1)

\* u64::checked_mul: -1 stands for None
CheckedMul(x, y) == IF x * y > U64Max THEN -1 ELSE x * y

\* (variant) lines 70-72 with the price of one token taken as the total
TotalPriceOfOne(amount, order) == CheckedMul(1, order.price_per_token)

\* amount.checked_mul(order.price_per_token) (lines 70-72)
TotalPrice(amount, order) == CheckedMul(amount, order.price_per_token)

\* The two lamport writes of lines 74-75 on u64.  `checked` is the build's
\* overflow-checks setting: with it an underflow or overflow panics, without it
\* the value wraps.
Pay(st, buyer, seller, total_price, checked) ==
    LET b == st.lamports[buyer] - total_price
        st1 == [st EXCEPT !.lamports[buyer] = b % (U64Max + 1)]
        s == st1.lamports[seller] + total_price
    IN  IF checked /\ b < 0 THEN Fail("Panic", st)
        ELSE IF checked /\ s > U64Max THEN Fail("Panic", st1)
        ELSE Done([st1 EXCEPT !.lamports[seller] = s % (U64Max + 1)])

\* What the ledger checks of the lamports a program wrote directly, when the
\* program next makes a CPI (line 84) and when it returns: an account the
\* program does not own must not have lost lamports, and the total is kept.
LamportRules(pre, post) ==
    IF \E w \in Wallets : WalletOwner[w] # ProgramId /\ post.lamports[w] < pre.lamports[w]
    THEN "ExternalAccountLamportSpend"
    ELSE IF TotalLamports(post) # TotalLamports(pre) THEN "UnbalancedInstruction"
    ELSE "Ok"

\* (variant) line 97 subtracting the price paid instead of the amount bought
SettleByPrice(st, p, amount) ==
    [st EXCEPT !.sell_order[p].amount_remaining = @ - amount * st.sell_order[p].price_per_token,
               !.purchased[p] = @ + amount]

\* (variant) line 97 writing the remainder into price_per_token as well
SettleAndReprice(st, p, amount) ==
    [st EXCEPT !.sell_order[p].amount_remaining = @ - amount,
               !.sell_order[p].price_per_token = st.sell_order[p].amount_remaining - amount,
               !.purchased[p] = @ + amount]

\* order.amount_remaining -= amount (line 97), with the history of the order
Settle(st, p, amount) ==
    [st EXCEPT !.sell_order[p].amount_remaining = @ - amount,
               !.purchased[p] = @ + amount]

\* the handler buy
buy(st, t, a, amount, checked) ==
    LET p == a.sell_order
        order == st.sell_order[p]
        e == BuyChecks(t, order, amount)
        total_price == TotalPrice(amount, order)
        paid == Pay(st, a.buyer, a.seller, total_price, checked)
        rule == LamportRules(st, paid.st)
        signer == Derive("", order.seller, order.token_account, order.bump)
        moved == Transfer(paid.st, a.token_account, a.buyer_token_account,
                          a.order_authority, amount)
    IN  IF e # "Ok" THEN Fail(e, st)
        ELSE IF total_price = -1 THEN Fail("MathOverflow", st)
        ELSE IF paid.err # "Ok" THEN paid
        ELSE IF rule # "Ok" THEN Fail(rule, paid.st)
        ELSE IF signer # a.order_authority THEN Fail("MissingRequiredSignature", paid.st)
        ELSE IF moved.err # "Ok" THEN moved
        ELSE Done(Settle(moved.st, p, amount))

\* the whole instruction: account validation, then the handler
BuyIx(st, t, a, amount, checked) ==
    LET e == Buy(st, a) IN
    IF e # "Ok" THEN Fail(e, st) ELSE buy(st, t, a, amount, checked)

---------------------------------------------------------------------------
(* cancel *)

\* (variant) the struct without has_one and seeds on sell_order
CancelUnchecked(st, a) ==
    IF a.sell_order \notin DOMAIN st.sell_order THEN "AccountNotInitialized" ELSE "Ok"

\* The Accounts struct Cancel.  `a` holds seller (the signer), sell_order and
\* token_account.
Cancel(st, a) ==
    IF a.sell_order \notin DOMAIN st.sell_order THEN "AccountNotInitialized"
    ELSE LET o == st.sell_order[a.sell_order] IN
         IF o.seller # a.seller \/ o.token_account # a.token_account THEN "ConstraintHasOne"
         ELSE IF SellOrderKey(a.sell_order)
                   # Derive("sell_order", a.seller, a.token_account, o.bump) THEN "ConstraintSeeds"
         ELSE "Ok"

\* the handler cancel: revoke the delegate of the token account
cancel(st, a) == Revoke(st, a.token_account, a.seller)

\* (variant) `close` without a receiver: the deposit is lost with the account
CloseBurningDeposit(st, p, receiver) ==
    [st EXCEPT !.order_lamports = Drop(@, p),
               !.sell_order = Drop(@, p),
               !.created = Drop(@, p),
               !.purchased = Drop(@, p)]

\* (variant) the lamports are drained but the emptied account stays allocated
CloseLeavingAccount(st, p, receiver) ==
    [st EXCEPT !.lamports[receiver] = @ + st.order_lamports[p],
               !.order_lamports[p] = 0,
               !.sell_order = Drop(@, p),
               !.created = Drop(@, p),
               !.purchased = Drop(@, p)]

\* `close = seller` (line 198), applied when the handler has returned Ok: the
\* lamports of the SellOrder account go to the seller and the account is gone
Close(st, p, receiver) ==
    [st EXCEPT !.lamports[receiver] = @ + st.order_lamports[p],
               !.order_lamports = Drop(@, p),
               !.sell_order = Drop(@, p),
               !.created = Drop(@, p),
               !.purchased = Drop(@, p)]

\* the whole instruction
CancelIx(st, a) ==
    LET e == Cancel(st, a)
        r == cancel(st, a)
    IN  IF e # "Ok" THEN Fail(e, st)
        ELSE IF r.err # "Ok" THEN r
        ELSE Done(Close(r.st, a.sell_order, a.seller))

---------------------------------------------------------------------------
(* The ledger: an instruction is applied whole or not at all. *)

\* (variant) the state reached when the instruction returned is kept, error or not
AfterKeepingPartial(r) == r.st

\* the state after an instruction that returned r: an Err discards all it wrote
After(r) == IF r.err = "Ok" THEN r.st ELSE Cur

Commit(r) ==
    LET st == After(r) IN
    /\ lamports' = st.lamports
    /\ sell_order' = st.sell_order
    /\ order_lamports' = st.order_lamports
    /\ token_amount' = st.token_amount
    /\ delegate' = st.delegate
    /\ delegated_amount' = st.delegated_amount
    /\ created' = st.created
    /\ purchased' = st.purchased

\* one list of accounts for buy
BuyAccounts(b, s, k, t, d, n) ==
    [buyer |-> b, seller |-> s, sell_order |-> k, token_account |-> t,
     buyer_token_account |-> d, order_authority |-> Derive("", s, t, n)]

\* The accounts a caller of buy may pass.  With the accounts that belong to a
\* pair that can hold an order: any buyer, any destination, and the authority
\* derived with either bump.  Otherwise, one caller passing a SellOrder account
\* that cannot exist, a wrong seller or a wrong token account.
BuyAccountSets ==
    { BuyAccounts(b, k[1], k, k[2], d, n) :
        b \in Wallets, k \in OwnerPairs, d \in TokAccts, n \in Bumps }
    \cup { BuyAccounts("bob", k[1], k, k[2], "tb", 255) : k \in Pairs \ OwnerPairs }
    \cup { BuyAccounts("bob", s, k, k[2], "tb", 255) : s \in Sellers, k \in OwnerPairs }
    \cup { BuyAccounts("bob", k[1], k, t, "tb", 255) : t \in TokAccts, k \in OwnerPairs }

\* one list of accounts for cancel
CancelAccounts(s, k, t) == [seller |-> s, sell_order |-> k, token_account |-> t]

\* The accounts a caller of cancel may pass: the accounts that belong to a
\* pair, and for a pair that can hold an order also another signer, another
\* token account, or another signer with a token account of their own.
CancelAccountSets ==
    { CancelAccounts(k[1], k, k[2]) : k \in Pairs }
    \cup { CancelAccounts(s, k, k[2]) : s \in Sellers, k \in OwnerPairs }
    \cup { CancelAccounts(k[1], k, t) : t \in TokAccts, k \in OwnerPairs }
    \cup { CancelAccounts(TokOwner[t], k, t) : t \in TokAccts, k \in OwnerPairs }

\* The calls of create_sell_order: <<seller, token account, amount, price,
\* deadline>>.  The owner of a token account tries every amount, price and
\* deadline; another seller tries the largest amount at the ordinary price
\* with the latest deadline.
CreateCalls ==
    { c \in Sellers \X Sources \X Amounts \X Prices \X Deadlines :
        \/ <<c[1], c[2]>> \in OwnerPairs
        \/ c[3] = MaxAmount /\ c[4] = UnitPrice /\ c[5] = MaxTime }

Init ==
    /\ now = 0
    /\ lamports = InitLamports
    /\ sell_order = [p \in {} |-> 0]
    /\ order_lamports = [p \in {} |-> 0]
    /\ token_amount = InitTokens
    /\ delegate = [t \in TokAccts |-> NoDelegate]
    /\ delegated_amount = [t \in TokAccts |-> 0]
    /\ order_bump \in [OwnerPairs -> Bumps]
    /\ authority_bump \in [OwnerPairs -> Bumps]
    /\ created = [p \in {} |-> 0]
    /\ purchased = [p \in {} |-> 0]
    /\ last = [op |-> "init", signer |-> "none", err |-> "Ok"]

DoCreate ==
    \E c \in CreateCalls :
        LET r == CreateIx(Cur, now, c[1], c[2], c[3], c[4], c[5]) IN
        /\ Commit(r)
        /\ last' = [op |-> "create", signer |-> c[1], err |-> r.err]
        /\ UNCHANGED <<now, order_bump, authority_bump>>

DoBuy ==
    \E a \in BuyAccountSets, amount \in Amounts :
      \E r \in {BuyIx(Cur, now, a, amount, checked) : checked \in BOOLEAN} :
        /\ Commit(r)
        /\ last' = [op |-> "buy", signer |-> a.buyer, err |-> r.err]
        /\ UNCHANGED <<now, order_bump, authority_bump>>

DoCancel ==
    \E a \in CancelAccountSets :
        LET r == CancelIx(Cur, a) IN
        /\ Commit(r)
        /\ last' = [op |-> "cancel", signer |-> a.seller, err |-> r.err]
        /\ UNCHANGED <<now, order_bump, authority_bump>>

Tick ==
    /\ now < MaxTime
    /\ now' = now + 1
    /\ last' = [op |-> "tick", signer |-> "none", err |-> "Ok"]
    /\ UNCHANGED <<ledger, history, order_bump, authority_bump>>

Next == DoCreate \/ DoBuy \/ DoCancel \/ Tick

Spec == Init /\ [][Next]_vars

---------------------------------------------------------------------------
(* Every call that can be made in the current state, and its result. *)

\* a call of buy: <<accounts, amount, overflow-checks>>
BuyCalls == BuyAccountSets \X Amounts \X BOOLEAN
BuyResult(c) == BuyIx(Cur, now, c[1], c[2], c[3])

CreateResult(c) == CreateIx(Cur, now, c[1], c[2], c[3], c[4], c[5])

CancelResult(a) == CancelIx(Cur, a)

\* the caller passes the accounts of an existing order: its recorded seller,
\* its recorded token account and the authority its create approved
TrueAccounts(a) ==
    /\ a.sell_order \in DOMAIN sell_order
    /\ a.seller = sell_order[a.sell_order].seller
    /\ a.token_account = sell_order[a.sell_order].token_account

TrueBuyAccounts(a) ==
    /\ TrueAccounts(a)
    /\ a.order_authority = OrderAuthorityKey(a.sell_order)

---------------------------------------------------------------------------
(* Claims *)

\* C1: in every reachable state every existing order has
\* 0 <= amount_remaining <= the amount passed to the create that made it.
C1_RemainingWithinCreated ==
    \A p \in DOMAIN sell_order :
        /\ 0 <= sell_order[p].amount_remaining
        /\ sell_order[p].amount_remaining <= created[p]

\* C1 witness: buys have brought an order's amount_remaining from the created amount to 0
C1_Witness ==
    /\ last = [op |-> "buy", signer |-> "carol", err |-> "Ok"]
    /\ \E p \in DOMAIN sell_order : sell_order[p].amount_remaining = 0 /\ created[p] > 1

\* C2: every successful buy(amount) lowers amount_remaining by exactly amount,
\* and the amounts of the successful buys of an order never sum to more than
\* the amount passed to its create.
C2_ExactDecrement ==
    /\ \A p \in DOMAIN sell_order : purchased[p] <= created[p]
    /\ \A c \in BuyCalls :
         LET r == BuyResult(c) IN
         r.err = "Ok" =>
            r.st.sell_order[c[1].sell_order].amount_remaining
              = sell_order[c[1].sell_order].amount_remaining - c[2]

\* C2 witness: carol's successful buys of one order sum to the created amount
C2_Witness ==
    /\ last = [op |-> "buy", signer |-> "carol", err |-> "Ok"]
    /\ \E p \in DOMAIN sell_order :
         /\ purchased[p] = created[p]
         /\ created[p] = 2
         /\ sell_order[p].amount_remaining = 0

\* C3 (as claimed): a buy of an existing order, made with the order's own
\* accounts when now > deadline, fails with OrderExpired whatever the amount
\* and changes nothing.
C3_ExpiredBuyFailsOrderExpired ==
    \A c \in BuyCalls :
        (TrueBuyAccounts(c[1]) /\ now > sell_order[c[1].sell_order].deadline) =>
            LET r == BuyResult(c) IN r.err = "OrderExpired" /\ After(r) = Cur

\* C4 (as claimed): a buy of an existing order, made with the order's own
\* accounts and with amount = 0 or amount > amount_remaining, fails with
\* InvalidAmount and changes nothing.
C4_BadAmountFailsInvalidAmount ==
    \A c \in BuyCalls :
        (/\ TrueBuyAccounts(c[1])
         /\ (c[2] = 0 \/ c[2] > sell_order[c[1].sell_order].amount_remaining)) =>
            LET r == BuyResult(c) IN r.err = "InvalidAmount" /\ After(r) = Cur

C6_SellerCanAlwaysCancel ==
    \A a \in CancelAccountSets :
        TrueAccounts(a) =>
            LET r == CancelResult(a) IN
            /\ r.err = "Ok"
            /\ a.sell_order \notin DOMAIN After(r).sell_order
            /\ After(r).delegate[a.token_account] = NoDelegate
            /\ After(r).delegated_amount[a.token_account] = 0

\* C7: a buy that passes the deadline and amount checks and whose
\* amount * price_per_token exceeds u64::MAX fails with MathOverflow and
\* changes nothing.
C7_OverflowFailsMathOverflow ==
    \A c \in BuyCalls :
        LET a == c[1] IN
        (/\ Buy(Cur, a) = "Ok"
         /\ BuyChecks(now, sell_order[a.sell_order], c[2]) = "Ok"
         /\ c[2] * sell_order[a.sell_order].price_per_token > U64Max) =>
            LET r == BuyResult(c) IN r.err = "MathOverflow" /\ After(r) = Cur

\* C7 witness: a buy has failed with MathOverflow on an order priced u64::MAX
C7_Witness ==
    /\ last.op = "buy" /\ last.err = "MathOverflow"
    /\ \E p \in DOMAIN sell_order :
         /\ sell_order[p].price_per_token = U64Max
         /\ sell_order[p].amount_remaining = created[p]
         /\ now <= sell_order[p].deadline

\* what C8 says of a rejected create: no order for the pair and no allowance
\* for its authority afterwards
NothingCreated(r, c) ==
    /\ <<c[1], c[2]>> \notin DOMAIN After(r).sell_order
    /\ After(r).delegate[c[2]] # OrderAuthorityKey(<<c[1], c[2]>>)

\* C8 (as claimed): create with amount = 0 fails with InvalidAmount, with
\* price = 0 fails with InvalidPrice and with deadline <= now fails with
\* DeadlineInPast; in each case no order exists afterwards for the pair and
\* its authority has no allowance.
C8_CreateRejections ==
    \A c \in CreateCalls :
        LET r == CreateResult(c) IN
        /\ c[3] = 0 => r.err = "InvalidAmount" /\ NothingCreated(r, c)
        /\ c[4] = 0 => r.err = "InvalidPrice" /\ NothingCreated(r, c)
        /\ c[5] <= now => r.err = "DeadlineInPast" /\ NothingCreated(r, c)

\* C8 (amended): when no order exists for the pair and the seller can pay the
\* deposit of the order account, create with amount = 0 fails with
\* InvalidAmount, with amount > 0 and price = 0 fails with InvalidPrice, and
\* with amount > 0, price > 0 and deadline <= now fails with DeadlineInPast; in
\* each case nothing changes, so no order exists afterwards for the pair and
\* its authority has no allowance.  When an order already exists for the pair,
\* create fails whatever its arguments and the order stays as it was.
C8_CreateRejectionsInOrder ==
    \A c \in CreateCalls :
        LET r == CreateResult(c)
            p == <<c[1], c[2]>>
        IN  /\ (p \notin DOMAIN sell_order /\ lamports[c[1]] >= Rent) =>
                 /\ c[3] = 0 => r.err = "InvalidAmount"
                 /\ (c[3] > 0 /\ c[4] = 0) => r.err = "InvalidPrice"
                 /\ (c[3] > 0 /\ c[4] > 0 /\ c[5] <= now) => r.err = "DeadlineInPast"
                 /\ (c[3] = 0 \/ c[4] = 0 \/ c[5] <= now) =>
                        After(r) = Cur /\ NothingCreated(r, c)
            /\ p \in DOMAIN sell_order => r.err # "Ok" /\ After(r) = Cur

\* C8 witness: a create with a positive amount and price and deadline = now
\* has been rejected, and no order exists
C8_Witness ==
    /\ last = [op |-> "create", signer |-> "alice", err |-> "DeadlineInPast"]
    /\ now = MaxTime
    /\ DOMAIN sell_order = {}
    /\ delegate["ta"] = NoDelegate

\* C9: every successful create(amount, price, deadline) leaves an order whose
\* seller is the caller, whose token account is the one supplied, whose
\* amount_remaining, price_per_token and deadline are the supplied values, and
\* leaves the pair's authority as delegate of the token account for exactly
\* amount.
C9_CreateStoresTerms ==
    \A c \in CreateCalls :
        LET r == CreateResult(c)
            p == <<c[1], c[2]>>
        IN  r.err = "Ok" =>
              /\ p \in DOMAIN r.st.sell_order
              /\ r.st.sell_order[p].seller = c[1]
              /\ r.st.sell_order[p].token_account = c[2]
              /\ r.st.sell_order[p].amount_remaining = c[3]
              /\ r.st.sell_order[p].price_per_token = c[4]
              /\ r.st.sell_order[p].deadline = c[5]
              /\ r.st.delegate[c[2]] = OrderAuthorityKey(p)
              /\ r.st.delegated_amount[c[2]] = c[3]

\* C9 witness: alice has just created an order for 2 tokens
C9_Witness ==
    /\ last = [op |-> "create", signer |-> "alice", err |-> "Ok"]
    /\ <<"alice", "ta">> \in DOMAIN sell_order
    /\ sell_order[<<"alice", "ta">>].amount_remaining = 2
    /\ sell_order[<<"alice", "ta">>].price_per_token = UnitPrice
    /\ delegated_amount["ta"] = 2

\* how the payment of a buy fails, and how its token transfer fails
PaymentErrors == {"Panic", "ExternalAccountLamportSpend", "UnbalancedInstruction"}
TokenErrors == {"InsufficientFunds", "OwnerMismatch", "Overflow", "MissingRequiredSignature"}

C11_CancelMovesOnlyTheDeposit ==
    \A a \in CancelAccountSets :
        LET r == CancelResult(a) IN
        r.err = "Ok" =>
            /\ r.st.token_amount = token_amount
            /\ r.st.lamports
                 = [lamports EXCEPT ![a.seller] = @ + order_lamports[a.sell_order]]
            /\ order_lamports[a.sell_order] = Rent
            /\ TotalLamports(r.st) = TotalLamports(Cur)

\* C11 witness: alice has cancelled after carol bought one of her two tokens;
\* she keeps the other one and has her deposit back
C11_Witness ==
    /\ last = [op |-> "cancel", signer |-> "alice", err |-> "Ok"]
    /\ token_amount = [t \in TokAccts |-> 1]
    /\ DOMAIN order_lamports = {}
    /\ lamports["alice"] = InitLamports["alice"] + UnitPrice

\* C12: while an order exists for a pair, every create for the pair fails and
\* leaves the order's amount_remaining, price_per_token and deadline and the
\* allowance of its authority as they were; an order account exists exactly
\* where an order is recorded, one per pair.
C12_NoSecondOrderForAPair ==
    /\ DOMAIN order_lamports = DOMAIN sell_order
    /\ DOMAIN sell_order \subseteq Pairs
    /\ \A c \in CreateCalls :
         LET r == CreateResult(c)
             p == <<c[1], c[2]>>
         IN  p \in DOMAIN sell_order =>
               /\ r.err = "AccountAlreadyInUse"
               /\ After(r).sell_order[p].amount_remaining = sell_order[p].amount_remaining
               /\ After(r).sell_order[p].price_per_token = sell_order[p].price_per_token
               /\ After(r).sell_order[p].deadline = sell_order[p].deadline
               /\ After(r).delegate[c[2]] = delegate[c[2]]
               /\ After(r).delegated_amount[c[2]] = delegated_amount[c[2]]
               /\ After(r).created[p] = created[p]

\* C12 witness: alice's second create has been rejected while her order,
\* already half sold, exists
C12_Witness ==
    /\ last = [op |-> "create", signer |-> "alice", err |-> "AccountAlreadyInUse"]
    /\ <<"alice", "ta">> \in DOMAIN sell_order
    /\ sell_order[<<"alice", "ta">>].amount_remaining = 1
    /\ created[<<"alice", "ta">>] = 2
    /\ delegated_amount["ta"] = 1

\* the caller names an existing order but passes a seller (for cancel: the
\* signer) or a token account other than those the order records
Substituted(a) ==
    /\ a.sell_order \in DOMAIN sell_order
    /\ \/ a.seller # sell_order[a.sell_order].seller
       \/ a.token_account # sell_order[a.sell_order].token_account

\* C13: a cancel whose signer is not the order's recorded seller, and a buy or
\* cancel that passes a seller or token account other than the order's, fails
\* and changes nothing.
C13_SubstitutedAccountsRejected ==
    /\ \A a \in CancelAccountSets :
         Substituted(a) => CancelResult(a).err # "Ok" /\ After(CancelResult(a)) = Cur
    /\ \A c \in BuyCalls :
         Substituted(c[1]) => BuyResult(c).err # "Ok" /\ After(BuyResult(c)) = Cur

\* C13 witness: carol, signing with a token account of her own, has failed to
\* cancel alice's order, which keeps its deposit and its allowance
C13_Witness ==
    /\ last = [op |-> "cancel", signer |-> "carol", err |-> "ConstraintHasOne"]
    /\ <<"alice", "ta">> \in DOMAIN sell_order
    /\ order_lamports[<<"alice", "ta">>] = Rent
    /\ delegate["ta"] = OrderAuthorityKey(<<"alice", "ta">>)

\* an order whose amount_remaining the buys have brought to 0
Depleted(p) ==
    /\ p \in DOMAIN sell_order
    /\ sell_order[p].amount_remaining = 0

\* C14 (state part): a depleted order was depleted by its buys, and every buy
\* of it made with its own accounts up to the deadline fails with
\* InvalidAmount and changes nothing.
DepletedRejectsBuys ==
    \A p \in DOMAIN sell_order :
        Depleted(p) =>
          /\ purchased[p] = created[p]
          /\ \A c \in BuyCalls :
               (/\ c[1].sell_order = p
                /\ TrueBuyAccounts(c[1])
                /\ now <= sell_order[p].deadline) =>
                   BuyResult(c).err = "InvalidAmount" /\ After(BuyResult(c)) = Cur

\* C14 (step part): no step removes an order except a successful cancel signed
\* by its seller; in particular the buy that depletes an order leaves it
\* there.
RemovedOnlyByCancel ==
    \A p \in DOMAIN sell_order :
        p \notin DOMAIN sell_order' =>
            last' = [op |-> "cancel", signer |-> sell_order[p].seller, err |-> "Ok"]

\* C14: depletion does not close an order.  An order whose amount_remaining
\* has reached 0 is still there, every buy of it before the deadline fails with
\* InvalidAmount, and it goes away only when its seller cancels it.
C14_DepletedOrderStays ==
    [] DepletedRejectsBuys /\ [][RemovedOnlyByCancel]_vars

\* C14 witness: carol's buy of alice's depleted order has failed with
\* InvalidAmount before the deadline
C14_Witness ==
    /\ last = [op |-> "buy", signer |-> "carol", err |-> "InvalidAmount"]
    /\ Depleted(<<"alice", "ta">>)
    /\ token_amount["tb"] = 2
    /\ now <= sell_order[<<"alice", "ta">>].deadline

\* C15: once an order has been cancelled, and as long as no create for its
\* pair has succeeded, every buy and every cancel for the pair fails and
\* changes nothing; a create for the pair by the owner of the token account
\* with a positive amount and price and a deadline still ahead is accepted,
\* and the order it makes has the amount, price and deadline of that call, no
\* purchases, and an allowance of exactly the new amount.
C15_CancelledSlotIsFree ==
    \A p \in OwnerPairs \ DOMAIN sell_order :
        /\ \A c \in BuyCalls :
             c[1].sell_order = p => BuyResult(c).err # "Ok" /\ After(BuyResult(c)) = Cur
        /\ \A a \in CancelAccountSets :
             a.sell_order = p => CancelResult(a).err # "Ok" /\ After(CancelResult(a)) = Cur
        /\ \A c \in CreateCalls :
             (<<c[1], c[2]>> = p /\ c[3] > 0 /\ c[4] > 0 /\ c[5] > now) =>
                LET r == CreateResult(c) IN
                /\ r.err = "Ok"
                /\ r.st.sell_order[p].amount_remaining = c[3]
                /\ r.st.sell_order[p].price_per_token = c[4]
                /\ r.st.sell_order[p].deadline = c[5]
                /\ r.st.created[p] = c[3]
                /\ r.st.purchased[p] = 0
                /\ r.st.delegated_amount[c[2]] = c[3]

\* C15 witness: alice sold one token to carol, cancelled, and has now created a
\* new order for the one token she has left
C15_Witness ==
    /\ last = [op |-> "create", signer |-> "alice", err |-> "Ok"]
    /\ token_amount = [t \in TokAccts |-> 1]
    /\ sell_order[<<"alice", "ta">>].amount_remaining = 1
    /\ created[<<"alice", "ta">>] = 1
    /\ purchased[<<"alice", "ta">>] = 0
    /\ delegated_amount["ta"] = 1

\* every field of the order of pair p but amount_remaining is the same after the step
FieldsKept(p) ==
    /\ sell_order'[p].seller = sell_order[p].seller
    /\ sell_order'[p].token_mint = sell_order[p].token_mint
    /\ sell_order'[p].token_account = sell_order[p].token_account
    /\ sell_order'[p].price_per_token = sell_order[p].price_per_token
    /\ sell_order'[p].deadline = sell_order[p].deadline
    /\ sell_order'[p].bump = sell_order[p].bump

\* C16: between its create and its cancel an order changes only in
\* amount_remaining, and only by a successful buy; seller, token_mint,
\* token_account, price_per_token, deadline and bump stay what create wrote,
\* and no buy and no tick of the clock removes the order.
C16_OnlyAmountRemainingChanges ==
    [][\A p \in DOMAIN sell_order :
         /\ last'.op # "cancel" => p \in DOMAIN sell_order'
         /\ p \in DOMAIN sell_order' =>
              /\ FieldsKept(p)
              /\ sell_order'[p].amount_remaining # sell_order[p].amount_remaining =>
                    /\ last'.op = "buy" /\ last'.err = "Ok"
                    /\ sell_order'[p].amount_remaining < sell_order[p].amount_remaining]_vars

\* C16 witness: the clock has passed the deadline of alice's half-sold order,
\* which is still there with the price and deadline of its create
C16_Witness ==
    /\ last.op = "tick"
    /\ <<"alice", "ta">> \in DOMAIN sell_order
    /\ now > sell_order[<<"alice", "ta">>].deadline
    /\ sell_order[<<"alice", "ta">>].amount_remaining = 1
    /\ created[<<"alice", "ta">>] = 2
    /\ sell_order[<<"alice", "ta">>].price_per_token = UnitPrice

\* C17 (as claimed): for every order, the bump stored in it re-derives both
\* addresses create accepted: the SellOrder account from the seeds
\* ["sell_order", seller, token_account] and the order authority from the seeds
\* [seller, token_account]; so the seeds constraints of Buy and Cancel pass
\* for the order's own accounts.
C17_StoredBumpDerivesBothAddresses ==
    \A p \in DOMAIN sell_order :
        LET o == sell_order[p] IN
        /\ Derive("sell_order", o.seller, o.token_account, o.bump) = SellOrderKey(p)
        /\ Derive("", o.seller, o.token_account, o.bump) = OrderAuthorityKey(p)
        /\ Cancel(Cur, CancelAccounts(o.seller, p, o.token_account)) = "Ok"

\* what the authority of pair p may still move out of the pair's token account
Allowance(p) ==
    IF delegate[p[2]] = OrderAuthorityKey(p) THEN delegated_amount[p[2]] ELSE 0

\* C18 (as claimed): in every reachable state the amount_remaining of every
\* existing order equals the allowance its authority still holds over the
\* order's token account.
C18_RemainingEqualsAllowance ==
    \A p \in DOMAIN sell_order : sell_order[p].amount_remaining = Allowance(p)

\* a buy that meets what is asked of it: the order's own accounts, a buyer
\* holding the price, 0 < amount <= amount_remaining, the deadline not passed,
\* and a price that fits in u64
MeetsPreconditions(c) ==
    /\ TrueBuyAccounts(c[1])
    /\ LET o == sell_order[c[1].sell_order] IN
       /\ 0 < c[2] /\ c[2] <= o.amount_remaining
       /\ now <= o.deadline
       /\ c[2] * o.price_per_token <= U64Max
       /\ lamports[c[1].buyer] >= c[2] * o.price_per_token

\* C19 (as claimed, read for the orders whose stored bump passes the seeds
\* constraints of Buy): every buy that meets the preconditions succeeds.
C19_QualifiedBuySucceeds ==
    \A c \in BuyCalls :
        (MeetsPreconditions(c) /\ Buy(Cur, c[1]) = "Ok") => BuyResult(c).err = "Ok"

\* the result of the buy c applied to the state st
BuyResultIn(st, c) == BuyIx(st, now, c[1], c[2], c[3])

\* C20 (as claimed, read for the orders whose stored bump passes the seeds
\* constraints of Buy): two buys of one order by different buyers, each
\* meeting the preconditions, applied one after the other.  If the two
\* amounts together are within amount_remaining, both succeed in either order
\* and the two orders end in the same state; otherwise the first succeeds and
\* the second fails with InvalidAmount, in either order.
C20_TwoBuysFirstWins ==
    \A c1, c2 \in BuyCalls :
        (/\ c1[1].buyer # c2[1].buyer
         /\ c1[1].sell_order = c2[1].sell_order
         /\ MeetsPreconditions(c1) /\ Buy(Cur, c1[1]) = "Ok"
         /\ MeetsPreconditions(c2) /\ Buy(Cur, c2[1]) = "Ok") =>
            LET r1 == BuyResult(c1)
                r2 == BuyResult(c2)
                r12 == BuyResultIn(After(r1), c2)
                r21 == BuyResultIn(After(r2), c1)
            IN  /\ r1.err = "Ok" /\ r2.err = "Ok"
                /\ IF c1[2] + c2[2] <= sell_order[c1[1].sell_order].amount_remaining
                   THEN r12.err = "Ok" /\ r21.err = "Ok" /\ r12.st = r21.st
                   ELSE r12.err = "InvalidAmount" /\ r21.err = "InvalidAmount"

====
